---- MODULE Spec2Model ----
(***************************************************************************)
(* Model of the top-game-scores page script (src/unnamed/part_000): the    *)
(* paginated candidate list, the per-item enrichment getGameData, the      *)
(* batch loader loadNextBatch with its re-rank step, loadTopGames and the  *)
(* two-pass searchGames.  Every await of the script is a suspension point: *)
(* an action runs the synchronous code between two awaits.                 *)
(*                                                                         *)
(* Strings are sequences of one-character strings.  A record of allResults *)
(* carries rank = 0 while it has no rank property (pushed, not yet ranked) *)
(* and the history field seq, the order in which it was pushed.            *)
(***************************************************************************)
EXTENDS Integers, Sequences, FiniteSets, TLC

\* ------------------------------------------------------------------ bounds
\* load-more clicks (loadNextBatch invocations besides loadTopGames' own)
MaxCalls == 2
\* searchGames invocations (input events)
MaxSearches == 1

\* ------------------------------------------------------- program constants
DEFAULT_BATCH == 10
MAX_SEARCH_PAGES == 5
MAX_SEARCH_RESULTS == 10

\* null is the empty option << >>, a present value v the option <<v>>
Null == << >>
Some(v) == <<v>>
\* getGameData's three ways to end: a thrown error, null, a record
Throw == [status |-> "throw", info |-> << >>]
Ineligible == [status |-> "null", info |-> << >>]
Record(info) == [status |-> "ok", info |-> <<info>>]

\* ------------------------------------------------------------ environment
\* A SteamSpy catalog: page -> entries (appid, name).  Pages past the last
\* one are empty objects.
SmallCatalog ==
  [page \in 1..2 |->
     IF page = 1 THEN << [appid |-> 1, name |-> <<"A">>],
                         [appid |-> 2, name |-> <<"B">>] >>
                 ELSE << [appid |-> 3, name |-> <<"b">>] >>]

\* A catalog with more pages than one search may scan and, on the pages it
\* may scan, more entries of one name than one search may collect.
WideCatalog ==
  [page \in 1..(MAX_SEARCH_PAGES + 1) |->
     << [appid |-> 10 * page + 1, name |-> <<"A">>],
        [appid |-> 10 * page + 2, name |-> <<"A">>],
        [appid |-> 10 * page + 3, name |-> <<"A">>] >>]

\* data.name of the store's detail response
StoreName(appid) ==
  CASE appid = 1 -> <<"A">>
    [] appid = 2 -> <<"A">>
    [] OTHER     -> <<"b">>

\* what the user types into the search box
Queries == { << >>, <<" ">>, <<"a">>, <<"B", " ">>, <<"a", "b">> }

AppIds == {1, 2, 3}

\* Responses of the appdetails endpoint: a transport failure, or a body.
DetailResponses ==
  { [ok |-> FALSE, entry |-> FALSE, success |-> FALSE, score |-> Null],
    [ok |-> TRUE,  entry |-> FALSE, success |-> FALSE, score |-> Null],
    [ok |-> TRUE,  entry |-> TRUE,  success |-> FALSE, score |-> Null],
    [ok |-> TRUE,  entry |-> TRUE,  success |-> TRUE,  score |-> Null],
    [ok |-> TRUE,  entry |-> TRUE,  success |-> TRUE,  score |-> Some(50)] }

\* Responses of the appreviews endpoint.  The tallies are chosen so that
\* positive / total * 100 is an integer, in IEEE doubles as in the rationals.
ReviewResponses ==
  { [ok |-> FALSE, summary |-> FALSE, positive |-> 0, negative |-> 0],
    [ok |-> TRUE,  summary |-> FALSE, positive |-> 0, negative |-> 0],
    [ok |-> TRUE,  summary |-> TRUE,  positive |-> 0, negative |-> 0],
    [ok |-> TRUE,  summary |-> TRUE,  positive |-> 1, negative |-> 1],
    [ok |-> TRUE,  summary |-> TRUE,  positive |-> 3, negative |-> 1] }

\* the store's answers for the apps of the wide catalog
WideDetailResponses ==
  { d \in DetailResponses : ~d.ok \/ d.score # Null }

WideReviewResponses ==
  { r \in ReviewResponses : r.positive = 1 }

\* The responses getGameData is tried on alone: every tally pair besides.
ReviewDomain ==
  ReviewResponses \cup
  { [ok |-> TRUE, summary |-> TRUE, positive |-> p, negative |-> n] :
      p \in {0, 1, 3}, n \in {0, 1} }

\* ---------------------------------------------------------------- strings
ToLowerCase(s) ==
  [i \in 1..Len(s) |-> CASE s[i] = "A" -> "a" [] s[i] = "B" -> "b" [] OTHER -> s[i]]

RECURSIVE TrimStart(_)
TrimStart(s) == IF s # << >> /\ Head(s) = " " THEN TrimStart(Tail(s)) ELSE s

RECURSIVE TrimEnd(_)
TrimEnd(s) ==
  IF s # << >> /\ s[Len(s)] = " " THEN TrimEnd(SubSeq(s, 1, Len(s) - 1)) ELSE s

Trim(s) == TrimEnd(TrimStart(s))

Includes(s, t) ==
  \E i \in 0..(Len(s) - Len(t)) : SubSeq(s, i + 1, i + Len(t)) = t

\* the query lower-cased but not trimmed
NormalizeNoTrim(query) == ToLowerCase(query)

\* query.trim().toLowerCase()
Normalize(query) == ToLowerCase(Trim(query))

\* game.name.toLowerCase().includes(trimmed)
NameMatches(name, trimmed) == Includes(ToLowerCase(name), trimmed)

\* entry.name && entry.name.toLowerCase().includes(trimmed)
EntryMatches(entry, trimmed) == entry.name # << >> /\ NameMatches(entry.name, trimmed)

\* ------------------------------------------------------------- enrichment
computeUserScore(positive, negative) ==
  LET total == positive + negative
  IN  IF total = 0 THEN Null ELSE Some((positive * 100) \div total)

\* getGameData with the missing Metacritic score read as 0
getGameDataPartial(appid, detail, reviews) ==
  IF ~detail.ok THEN Throw
  ELSE IF ~detail.entry \/ ~detail.success THEN Ineligible
  ELSE IF ~reviews.ok THEN Throw
  ELSE IF ~reviews.summary THEN Ineligible
  ELSE LET metacriticScore == IF detail.score = Null THEN 0 ELSE detail.score[1]
           userScore == computeUserScore(reviews.positive, reviews.negative)
       IN  IF userScore = Null THEN Ineligible
           ELSE Record([appid |-> appid,
                        name |-> StoreName(appid),
                        metacriticScore |-> metacriticScore,
                        userScore |-> userScore[1],
                        combined |-> metacriticScore + userScore[1],
                        rank |-> 0,
                        seq |-> 0])

\* getGameData(appid) run against the two responses it receives: Throw when
\* a fetch it issues fails, Ineligible (null) when the item is not eligible,
\* else the record.
getGameData(appid, detail, reviews) ==
  IF ~detail.ok THEN Throw
  ELSE IF ~detail.entry \/ ~detail.success THEN Ineligible
  ELSE IF detail.score = Null THEN Ineligible
  ELSE IF ~reviews.ok THEN Throw
  ELSE IF ~reviews.summary THEN Ineligible
  ELSE LET metacriticScore == detail.score[1]
           userScore == computeUserScore(reviews.positive, reviews.negative)
       IN  IF userScore = Null THEN Ineligible
           ELSE Record([appid |-> appid,
                        name |-> StoreName(appid),
                        metacriticScore |-> metacriticScore,
                        userScore |-> userScore[1],
                        combined |-> metacriticScore + userScore[1],
                        rank |-> 0,
                        seq |-> 0])

\* both fetches issued whatever the detail response is
FetchesBoth(detail) == << "details", "reviews" >>

\* the fetches one getGameData call issues, in order: fetchJson(detailsUrl)
\* (line 190), then fetchJson(reviewsUrl) (line 199) unless the call has
\* ended before (lines 13-20: a failed fetch throws; lines 192-197: return
\* null)
FetchesIssued(detail) ==
  IF ~detail.ok \/ ~detail.entry \/ ~detail.success \/ detail.score = Null
  THEN << "details" >>
  ELSE << "details", "reviews" >>

\* what one call of getGameData(appid) can come back with
Outcomes(appid) ==
  IF appid \in AppIds
  THEN { getGameData(appid, d, r) : d \in DetailResponses, r \in ReviewResponses }
  ELSE { getGameData(appid, d, r) :
           d \in WideDetailResponses, r \in WideReviewResponses }

\* ---------------------------------------------------------------- ranking
\* a sort that puts a record before the records of equal combined
InsertBeforeEqual(sorted, x) ==
  LET p == Cardinality({i \in 1..Len(sorted) : sorted[i].combined > x.combined})
  IN  SubSeq(sorted, 1, p) \o <<x>> \o SubSeq(sorted, p + 1, Len(sorted))

\* Array.prototype.sort with (a, b) => b.combined - a.combined: a stable
\* sort, descending by combined.
InsertByCombined(sorted, x) ==
  LET p == Cardinality({i \in 1..Len(sorted) : sorted[i].combined >= x.combined})
  IN  SubSeq(sorted, 1, p) \o <<x>> \o SubSeq(sorted, p + 1, Len(sorted))

RECURSIVE SortByCombined(_)
SortByCombined(s) ==
  IF s = << >> THEN << >>
  ELSE InsertByCombined(SortByCombined(SubSeq(s, 1, Len(s) - 1)), s[Len(s)])

\* a rank pass that also overwrites combined with the rank
AssignRanksClobber(s) ==
  [idx \in 1..Len(s) |-> [s[idx] EXCEPT !.rank = idx, !.combined = idx]]

\* allResults.map((game, idx) => ({ ...game, rank: idx + 1 }))
AssignRanks(s) == [idx \in 1..Len(s) |-> [s[idx] EXCEPT !.rank = idx]]

\* .sort((a, b) => a.rank - b.rank): stable, ascending by rank
InsertByRank(sorted, x) ==
  LET p == Cardinality({i \in 1..Len(sorted) : sorted[i].rank <= x.rank})
  IN  SubSeq(sorted, 1, p) \o <<x>> \o SubSeq(sorted, p + 1, Len(sorted))

RECURSIVE SortByRank(_)
SortByRank(s) ==
  IF s = << >> THEN << >>
  ELSE InsertByRank(SortByRank(SubSeq(s, 1, Len(s) - 1)), s[Len(s)])

\* rankMap after combinedList.forEach((game, idx) => rankMap.set(game.appid,
\* idx + 1)): a later entry of the same appid overwrites an earlier one
RankMapGet(combinedList, appid) ==
  LET at == {idx \in 1..Len(combinedList) : combinedList[idx].appid = appid}
  IN  CHOOSE idx \in at : \A other \in at : other <= idx

\* lines 159-166: the ranks searchGames displays for results, given allResults
RankResults(all, results) ==
  LET combinedList == SortByCombined(all \o results)
  IN  SortByRank([k \in 1..Len(results) |->
        [results[k] EXCEPT !.rank = RankMapGet(combinedList, results[k].appid)]])

\* ------------------------------------------------------------------ state
VARIABLES
  allResults,      \* the ranked list (records; rank = 0: no rank yet)
  candidateList,   \* catalog entries materialized so far
  candidateIndex,  \* next candidate to consume (0-based, as in the script)
  candidatePage,   \* page number of the last page requested
  pcTop,           \* loadTopGames: "page" (awaiting page 1), "called", "error"
  batch,           \* loadNextBatch invocations: id -> locals, position (pc),
                   \* getGameData calls made (attempts), how the returned
                   \* promise settled (outcome), and whether line 243 logged
                   \* the page error to the console (pageError) or line
                   \* 258 the error of an item (itemError)
  nCalls,          \* loadNextBatch invocations started so far
  listed,          \* the cards of the main game list (last renderGames)
  loadMoreShown,   \* the load-more button is displayed
  listShown,       \* the main game list is displayed
  search,          \* searchGames invocations: id -> locals and position
  nSearches,       \* searchGames invocations started so far
  searchShown,     \* content of the search-results container
  catalog,         \* what SteamSpy serves: page -> entries, fixed in a run
  gd               \* the last getGameData call observed on its own

loader == << allResults, candidateList, candidateIndex, candidatePage, pcTop,
             batch, nCalls >>
\* the loader's variables besides allResults
aggregator == << candidateList, candidateIndex, candidatePage, pcTop, batch,
                 nCalls >>
searcher == << listShown, search, nSearches, searchShown >>

vars == << allResults, candidateList, candidateIndex, candidatePage, pcTop,
           batch, nCalls, listed, loadMoreShown, listShown, search,
           nSearches, searchShown, catalog, gd >>

\* the entries SteamSpy answers a request for a page with
Catalog(page) == IF page \in DOMAIN catalog THEN catalog[page] ELSE << >>

\* ids of loadNextBatch invocations: the clicks and loadTopGames' own call
Inv == 1..(MaxCalls + 1)

BatchSizes == {0, 1, DEFAULT_BATCH}

IdleBatch ==
  [pc |-> "idle", batchSize |-> 0, added |-> 0, attempts |-> 0, cand |-> 0,
   page |-> 0, outcome |-> "pending", pageError |-> FALSE,
   itemError |-> FALSE]

\* ids of searchGames invocations; the last one is used only where an input
\* event arrives on top of the MaxSearches others
Srch == 1..(MaxSearches + 1)

\* locals of a searchGames invocation; query is its argument, fetches the
\* catalog pages it has requested and enriched the getGameData calls it has
\* made
IdleSearch ==
  [pc |-> "idle", query |-> << >>, trimmed |-> << >>, page |-> 0,
   rest |-> << >>, cand |-> 0, results |-> << >>, local |-> FALSE,
   fetches |-> 0, enriched |-> 0, failed |-> 0]

\* content of the search container: emptied by an empty query (hidden), the
\* "Searching..." note, "No results found.", or the result cards.  The
\* container is displayed when the main list is not (lines 101-103, 110-112).
Shown(mode, cards) == [mode |-> mode, cards |-> cards]

NoCall ==
  [appid |-> 0,
   detail |-> [ok |-> FALSE, entry |-> FALSE, success |-> FALSE, score |-> Null],
   reviews |-> [ok |-> FALSE, summary |-> FALSE, positive |-> 0, negative |-> 0],
   result |-> Throw, fetches |-> << >>]

Start ==
  \* loadTopGames has run up to its first await (lines 272-282)
  /\ allResults = << >>
  /\ candidateList = << >>
  /\ candidateIndex = 0
  /\ candidatePage = 1
  /\ pcTop = "page"
  /\ batch = [i \in Inv |-> IdleBatch]
  /\ nCalls = 0
  \* "Loading data... please wait." (line 274): no card
  /\ listed = << >>
  \* the button and the list as the page shows them before any render
  /\ loadMoreShown = TRUE
  /\ listShown = TRUE
  /\ search = [s \in Srch |-> IdleSearch]
  /\ nSearches = 0
  /\ searchShown = Shown("hidden", << >>)
  /\ gd = NoCall

Init == Start /\ catalog = SmallCatalog

\* the page opened against the wide catalog
InitWide == Start /\ catalog = WideCatalog

\* ---------------------------------------------------------- loadNextBatch
\* the loop bound off by one: added <= batchSize
ContinueBatchInclusive(added, batchSize, index, length) ==
  added <= batchSize /\ index < length

\* while (added < batchSize && candidateIndex < candidateList.length)
ContinueBatch(added, batchSize, index, length) ==
  added < batchSize /\ index < length

\* the re-rank skipped for a batch that added one record
FinishBatchSkipsOne(added, results) ==
  IF added > 1 THEN AssignRanks(SortByCombined(results)) ELSE results

\* the re-rank run whatever was added
FinishBatchAlways(added, results) == AssignRanks(SortByCombined(results))

\* if (added > 0) { sort; assign ranks }  (lines 261-266)
FinishBatch(added, results) ==
  IF added > 0 THEN AssignRanks(SortByCombined(results)) ELSE results

\* renderGames' load-more visibility (lines 63-70)
MoreCandidates(index, length) == ~(index >= length)

\* The synchronous run of the batch loop from its condition to the next
\* await (line 252) or to the end of the function (line 267).  b: the
\* invocation's locals, cl: candidateList, ar: allResults, both as they are
\* when the loop condition is evaluated.
RunLoop(i, b, cl, ar) ==
  /\ candidateList' = cl
  /\ IF ContinueBatch(b.added, b.batchSize, candidateIndex, Len(cl))
     THEN /\ batch' = [batch EXCEPT ![i] =
                 [b EXCEPT !.pc = "enrich",
                           !.cand = cl[candidateIndex + 1].appid,
                           !.attempts = @ + 1]]
          /\ candidateIndex' = candidateIndex + 1
          /\ allResults' = ar
          /\ UNCHANGED << loadMoreShown, listed >>
     ELSE /\ batch' = [batch EXCEPT ![i] =
                 [b EXCEPT !.pc = "done", !.cand = 0, !.page = 0,
                           !.outcome = "fulfilled"]]
          /\ allResults' = FinishBatch(b.added, ar)
          /\ loadMoreShown' = IF b.added > 0
                              THEN MoreCandidates(candidateIndex, Len(cl))
                              ELSE loadMoreShown
          /\ listed' = IF b.added > 0 THEN FinishBatch(b.added, ar) ELSE listed
          /\ UNCHANGED candidateIndex

\* the page counter left where it is
SamePage(page) == page

\* candidatePage += 1; (line 239)
NextPage(page) == page + 1

\* the next page requested one candidate early
ExhaustedButOne(index, length) == length = 0 \/ index + 1 >= length

\* if (!candidateList.length || candidateIndex >= candidateList.length)
\* (line 237)
Exhausted(index, length) == length = 0 \/ index >= length

\* loadNextBatch(batchSize) from its call to its first await or its end
\* (lines 235-249); cl is candidateList at the call.
BeginBatch(i, batchSize, cl) ==
  LET b == [IdleBatch EXCEPT !.batchSize = batchSize]
  IN  IF Exhausted(candidateIndex, Len(cl))
      THEN /\ candidatePage' = NextPage(candidatePage)
           /\ batch' = [batch EXCEPT ![i] =
                  [b EXCEPT !.pc = "page", !.page = NextPage(candidatePage)]]
           /\ candidateList' = cl
           /\ UNCHANGED << allResults, candidateIndex, loadMoreShown, listed >>
      ELSE /\ RunLoop(i, b, cl, allResults)
           /\ UNCHANGED candidatePage

\* the load-more click handler (lines 295-298); batchSize ranges over the
\* function's parameter, the handler itself passes DEFAULT_BATCH
LoadMoreOf(sizes) ==
  /\ nCalls - (IF pcTop = "called" THEN 1 ELSE 0) < MaxCalls
  /\ \E batchSize \in sizes :
       BeginBatch(nCalls + 1, batchSize, candidateList)
  /\ nCalls' = nCalls + 1
  /\ UNCHANGED << pcTop, gd, catalog, searcher >>

LoadMore == LoadMoreOf(BatchSizes)

\* await loadCandidatePage(candidatePage) resolves (lines 221-227, 241)
PageLoaded(i) ==
  /\ batch[i].pc = "page"
  /\ RunLoop(i, batch[i], candidateList \o Catalog(batch[i].page), allResults)
  /\ UNCHANGED << candidatePage, pcTop, nCalls, gd, catalog, searcher >>

\* the catch without its return: the error is logged and the loop runs
PageFailedFallsThrough(i) ==
  /\ batch[i].pc = "page"
  /\ RunLoop(i, [batch[i] EXCEPT !.pageError = TRUE], candidateList, allResults)
  /\ UNCHANGED << candidatePage, pcTop, nCalls, gd, catalog, searcher >>

\* the page fetch throws: catch, console.error, return (lines 242-245)
PageFailed(i) ==
  /\ batch[i].pc = "page"
  /\ batch' = [batch EXCEPT ![i] =
         [@ EXCEPT !.pc = "done", !.page = 0, !.outcome = "fulfilled",
                   !.pageError = TRUE]]
  /\ UNCHANGED << allResults, candidateList, candidateIndex, candidatePage,
                  pcTop, nCalls, listed, loadMoreShown, gd, catalog, searcher >>

\* allResults.push(info) (line 254); seq records the push order
Push(results, info) == Append(results, [info EXCEPT !.seq = Len(results) + 1])

\* the error of one item ending the invocation: logged, the loop left, no
\* re-rank
CatchItemAborts(i) ==
  /\ batch' = [batch EXCEPT ![i] =
         [@ EXCEPT !.pc = "done", !.cand = 0, !.outcome = "rejected",
                   !.itemError = TRUE]]
  /\ UNCHANGED << allResults, candidateList, candidateIndex, loadMoreShown,
                  listed >>

\* the failed call made again for the same candidate (itemError flips on
\* each attempt)
CatchItemRetries(i) ==
  /\ batch' = [batch EXCEPT ![i].itemError = ~@]
  /\ UNCHANGED << allResults, candidateList, candidateIndex, loadMoreShown,
                  listed >>

\* catch (err) { console.error(...) } of one item (lines 257-259): the
\* error is logged and the loop goes on
CatchItem(i) ==
  RunLoop(i, [batch[i] EXCEPT !.itemError = TRUE], candidateList, allResults)

\* await getGameData(cand.appid) settles (lines 252-259), then the loop
EnrichSettled(i) ==
  /\ batch[i].pc = "enrich"
  /\ \E out \in Outcomes(batch[i].cand) :
       IF out.status = "ok"
       THEN RunLoop(i, [batch[i] EXCEPT !.added = @ + 1], candidateList,
                    Push(allResults, out.info[1]))
       ELSE IF out.status = "throw"
       THEN CatchItem(i)
       ELSE RunLoop(i, batch[i], candidateList, allResults)
  /\ UNCHANGED << candidatePage, pcTop, nCalls, gd, catalog, searcher >>

\* ----------------------------------------------------------- loadTopGames
\* page 1 arrives; loadNextBatch(10) is called (lines 282-284)
TopPageLoaded ==
  /\ pcTop = "page"
  /\ pcTop' = "called"
  /\ BeginBatch(nCalls + 1, DEFAULT_BATCH, candidateList \o Catalog(1))
  /\ nCalls' = nCalls + 1
  /\ UNCHANGED << gd, catalog, searcher >>

\* the first page fetch throws: the catch of loadTopGames (lines 285-288)
TopPageFailed ==
  /\ pcTop = "page"
  /\ pcTop' = "error"
  \* the list container holds the error message, no card
  /\ listed' = << >>
  /\ UNCHANGED << allResults, candidateList, candidateIndex, candidatePage,
                  batch, nCalls, loadMoreShown, gd, catalog, searcher >>

\* ------------------------------------------------------------ searchGames
\* the merged ranking done on allResults itself: its records and the results
\* sorted in place
RankedInPlace(all, results) == SortByCombined(all \o results)

\* allResults replaced by the results of the search
ResultsOnly(all, results) == results

\* allResults after lines 159-166: concat returns a new array, the sort and
\* the rank map work on that array
AfterRanking(all, results) == all

\* the local pass taken only for two matches or more
UseLocalMany(localMatches) == Len(localMatches) > 1

\* if (localMatches.length > 0) (line 119)
UseLocal(localMatches) == Len(localMatches) > 0

\* the scan started behind the last page the loader requested
ScanAfterCursor(cursor) == cursor + 1

\* let page = 1; (line 125): the scan starts at the first catalog page,
\* whatever candidatePage (cursor) is
ScanFrom(cursor) == 1

\* the entry loop without its break
ResultBudgetNeverSpent(results) == FALSE

\* if (results.length >= MAX_SEARCH_RESULTS) break; (line 131)
ResultBudgetSpent(results) == Len(results) >= MAX_SEARCH_RESULTS

\* lines 149-182: clear the container, then "No results found." or the cards
\* ranked against allResults as it is now
ShowResults(s, st, results) ==
  /\ search' = [search EXCEPT ![s] =
         [st EXCEPT !.pc = "done", !.results = results, !.rest = << >>,
                    !.cand = 0, !.page = 0]]
  /\ searchShown' = IF Len(results) = 0
                    THEN Shown("none", << >>)
                    ELSE Shown("results", RankResults(allResults, results))
  /\ allResults' = IF Len(results) = 0
                   THEN allResults
                   ELSE AfterRanking(allResults, results)

\* the page loop's condition (line 126), then the next page fetch or the end
ScanPages(s, st, results) ==
  IF st.page <= MAX_SEARCH_PAGES /\ Len(results) < MAX_SEARCH_RESULTS
  THEN /\ search' = [search EXCEPT ![s] =
              [st EXCEPT !.pc = "page", !.results = results, !.rest = << >>,
                         !.cand = 0, !.fetches = @ + 1]]
       /\ UNCHANGED << searchShown, allResults >>
  ELSE ShowResults(s, st, results)

\* for (const entry of entries) (lines 130-142) up to the next await; rest:
\* the entries of the page not visited yet
RECURSIVE ScanEntries(_, _, _, _)
ScanEntries(s, st, rest, results) ==
  IF rest = << >> \/ ResultBudgetSpent(results)
  THEN ScanPages(s, [st EXCEPT !.page = @ + 1], results)
  ELSE IF EntryMatches(Head(rest), st.trimmed)
  THEN /\ search' = [search EXCEPT ![s] =
              [st EXCEPT !.pc = "enrich", !.results = results,
                         !.rest = Tail(rest), !.cand = Head(rest).appid,
                         !.enriched = @ + 1]]
       /\ UNCHANGED << searchShown, allResults >>
  ELSE ScanEntries(s, st, Tail(rest), results)

\* searchGames(query) from its call to its first await or its end
\* (lines 93-128)
SearchGames ==
  /\ nSearches' = nSearches + 1
  /\ \E query \in Queries :
       LET s == nSearches + 1
           trimmed == Normalize(query)
           localMatches ==
             SelectSeq(allResults, LAMBDA game : NameMatches(game.name, trimmed))
           st == [IdleSearch EXCEPT !.query = query, !.trimmed = trimmed,
                                    !.page = ScanFrom(candidatePage),
                                    !.local = Len(localMatches) > 0]
       IN  IF trimmed = << >>
           THEN /\ searchShown' = Shown("hidden", << >>)
                /\ listShown' = TRUE
                /\ listed' = allResults
                /\ loadMoreShown' = MoreCandidates(candidateIndex, Len(candidateList))
                /\ search' = [search EXCEPT ![s] =
                       [IdleSearch EXCEPT !.pc = "done", !.query = query]]
                /\ UNCHANGED allResults
           ELSE /\ listShown' = FALSE
                /\ loadMoreShown' = FALSE
                /\ UNCHANGED listed
                /\ IF UseLocal(localMatches)
                   THEN ShowResults(s, st, localMatches)
                   ELSE /\ search' = [search EXCEPT ![s] =
                               [st EXCEPT !.pc = "page", !.fetches = 1]]
                        /\ searchShown' = Shown("searching", << >>)
                        /\ UNCHANGED allResults
  /\ UNCHANGED << aggregator, gd, catalog >>

\* an input event (lines 300-305)
SearchInput == nSearches < MaxSearches /\ SearchGames

\* the catalog page of the fallback scan arrives (lines 128-129)
SearchPageLoaded(s) ==
  /\ search[s].pc = "page"
  /\ ScanEntries(s, search[s], Catalog(search[s].page), search[s].results)
  /\ UNCHANGED << aggregator, listed, gd, catalog, loadMoreShown, listShown, nSearches >>

\* the page fetch of the fallback scan throws (lines 143-146)
SearchPageFailed(s) ==
  /\ search[s].pc = "page"
  /\ ScanPages(s, [search[s] EXCEPT !.page = @ + 1], search[s].results)
  /\ UNCHANGED << aggregator, listed, gd, catalog, loadMoreShown, listShown, nSearches >>

\* a failed item ends the scan of its page, as the page's own catch would
SearchCatchItemEndsPage(s) ==
  ScanPages(s, [search[s] EXCEPT !.failed = search[s].cand, !.page = @ + 1],
            search[s].results)

\* catch (err) { /* Ignore individual failures */ } (lines 139-141), then the
\* next entry; failed: the candidate whose getGameData threw last
SearchCatchItem(s) ==
  ScanEntries(s, [search[s] EXCEPT !.failed = search[s].cand],
              search[s].rest, search[s].results)

\* await getGameData(entry.appid) of the fallback scan settles (lines 133-140)
SearchEnrichSettled(s) ==
  /\ search[s].pc = "enrich"
  /\ \E out \in Outcomes(search[s].cand) :
       IF out.status = "ok"
       THEN ScanEntries(s, search[s], search[s].rest,
                        Append(search[s].results, out.info[1]))
       ELSE IF out = Throw
       THEN SearchCatchItem(s)
       ELSE ScanEntries(s, search[s], search[s].rest, search[s].results)
  /\ UNCHANGED << aggregator, listed, gd, catalog, loadMoreShown, listShown, nSearches >>

\* ------------------------------------------------------ getGameData alone
\* one call of getGameData on any responses of the two endpoints
GetGameDataCall ==
  /\ \E appid \in AppIds, detail \in DetailResponses, reviews \in ReviewDomain :
       gd' = [appid |-> appid, detail |-> detail, reviews |-> reviews,
              result |-> getGameData(appid, detail, reviews),
              fetches |-> FetchesIssued(detail)]
  /\ UNCHANGED << loader, searcher, listed, loadMoreShown, catalog >>

\* --------------------------------------------------------- specifications
\* The searcher writes no variable the loader reads and the loader's actions
\* do not depend on the searcher, so the two are explored apart: Spec is the
\* loader (loadTopGames and the load-more clicks), SpecSearch is searchGames
\* running against loadTopGames and its first batch, SpecEnrich is
\* getGameData as a function of the responses it receives.
Next ==
  \/ LoadMore
  \/ \E i \in Inv : PageLoaded(i)
  \/ \E i \in Inv : PageFailed(i)
  \/ \E i \in Inv : EnrichSettled(i)
  \/ TopPageLoaded
  \/ TopPageFailed

Spec == Init /\ [][Next]_vars

NextSearch ==
  \/ SearchInput
  \/ \E s \in Srch : SearchPageLoaded(s)
  \/ \E s \in Srch : SearchPageFailed(s)
  \/ \E s \in Srch : SearchEnrichSettled(s)
  \/ \E i \in Inv : EnrichSettled(i)
  \/ TopPageLoaded
  \/ TopPageFailed

SpecSearch == Init /\ [][NextSearch]_vars

NextEnrich == GetGameDataCall

SpecEnrich == Init /\ [][NextEnrich]_vars

\* One searchGames invocation against the wide catalog while the first page
\* of loadTopGames is still in flight (allResults is empty, every query goes
\* to the fallback scan).
SearchOnce == nSearches = 0 /\ SearchInput

\* one more input event than SearchInput allows
SearchAgain == nSearches <= MaxSearches /\ SearchGames

NextBudget ==
  \/ SearchOnce
  \/ \E s \in Srch : SearchPageLoaded(s)
  \/ \E s \in Srch : SearchPageFailed(s)
  \/ \E s \in Srch : SearchEnrichSettled(s)

SpecBudget == InitWide /\ [][NextBudget]_vars

\* an await of loadNextBatch invocation i settles: its page fetch (line 241)
\* or its getGameData call (line 252) returns or fails
Settle(i) == PageLoaded(i) \/ PageFailed(i) \/ EnrichSettled(i)

\* invocation i awaits a fetch; Settle(i) is enabled exactly then
Pending(i) == batch[i].pc \in {"page", "enrich"}

\* a click asking for the handler's batch or for a batch of one
LoadMoreSome == LoadMoreOf({1, DEFAULT_BATCH})

NextSettling ==
  \/ LoadMoreSome
  \/ \E i \in Inv : PageLoaded(i)
  \/ \E i \in Inv : PageFailed(i)
  \/ \E i \in Inv : EnrichSettled(i)
  \/ TopPageLoaded
  \/ TopPageFailed

\* The loader with every fetch settling in the end: no await of a
\* loadNextBatch invocation stays pending forever.  The fairness condition is
\* WF_vars(Settle(i)) written out, with Pending(i) for ENABLED <<Settle(i)>>_vars.
SpecSettling ==
  /\ Init
  /\ [][NextSettling]_vars
  /\ \A i \in Inv : ([]<>(~Pending(i)) \/ []<><<Settle(i)>>_vars)

\* searchGames invocations that overlap: as SpecSearch, with one more input
\* event, which may arrive while an earlier search awaits its fetches.
NextOverlap ==
  \/ SearchAgain
  \/ \E s \in Srch : SearchPageLoaded(s)
  \/ \E s \in Srch : SearchPageFailed(s)
  \/ \E s \in Srch : SearchEnrichSettled(s)
  \/ \E i \in Inv : EnrichSettled(i)
  \/ TopPageLoaded
  \/ TopPageFailed

SpecOverlap == Init /\ [][NextOverlap]_vars

\* ----------------------------------------------------------------- claims
Quiescent == \A i \in Inv : batch[i].pc \in {"idle", "done"}

RanksDense == \A k \in 1..Len(allResults) : allResults[k].rank = k

Descending ==
  \A k \in 1..(Len(allResults) - 1) :
    allResults[k].combined >= allResults[k + 1].combined

\* C1: whenever no loadNextBatch invocation is in progress, the ranks of
\* allResults are exactly 1..N in list order and combined is non-increasing.
C1_RankedWhenQuiescent == Quiescent => (RanksDense /\ Descending)

\* a quiescent state after a failed page fetch, with a list the sort reordered
C1_Witness ==
  /\ Quiescent
  /\ Len(allResults) >= 2
  /\ allResults[1].seq > allResults[2].seq
  /\ \E i \in Inv : batch[i].pageError

\* C2: a search that matches records of the ranked allResults shows every
\* match with the rank the record has in allResults.
C2_LocalMatchesKeepRank ==
  [][\A s \in Srch :
       (search[s].pc = "idle" /\ search'[s].pc = "done" /\ search'[s].local
          /\ RanksDense)
       => \A c \in 1..Len(searchShown'.cards) :
            \E k \in 1..Len(allResults) :
              /\ allResults[k].appid = searchShown'.cards[c].appid
              /\ allResults[k].seq = searchShown'.cards[c].seq
              /\ allResults[k].rank = searchShown'.cards[c].rank]_vars

\* C3 as stated: one invocation makes at most batchSize enrichment attempts.
C3_AttemptsBounded == \A i \in Inv : batch[i].attempts <= batch[i].batchSize

\* C3 as amended: one invocation adds at most batchSize records, and asks
\* for a further candidate only while it has added fewer than batchSize.
C3_AddedBounded ==
  \A i \in Inv :
    /\ batch[i].added <= batch[i].batchSize
    /\ batch[i].added <= batch[i].attempts
    /\ batch[i].pc = "enrich" => batch[i].added < batch[i].batchSize

\* an invocation that met Ineligible candidates and made more attempts than
\* batchSize before it had added batchSize records
C3_Witness ==
  \E i \in Inv :
    /\ batch[i].pc = "done"
    /\ batch[i].batchSize > 0
    /\ batch[i].added = batch[i].batchSize
    /\ batch[i].attempts > batch[i].batchSize

\* C4: a failed page fetch inside loadNextBatch reaches the caller as an
\* error outcome, unlike a batch that completed.
C4_PageFailureSurfaced ==
  \A i \in Inv : batch[i].pageError => batch[i].outcome = "rejected"

\* C5: the invocation whose page fetch fails makes no enrichment attempt and
\* none of its steps changes candidateIndex or allResults.
C5_FailedFetchAborts ==
  /\ [](\A i \in Inv :
          batch[i].pageError =>
            batch[i].pc = "done" /\ batch[i].attempts = 0 /\ batch[i].added = 0)
  /\ [][\A i \in Inv :
          (batch'[i] # batch[i] /\ (batch'[i].pageError \/ batch'[i].pc = "page"))
          => (allResults' = allResults /\ candidateIndex' = candidateIndex)]_vars

\* a page fetch failed after records were ranked and candidates consumed
C5_Witness ==
  \E i \in Inv :
    batch[i].pageError /\ Len(allResults) > 0 /\ candidateIndex > 0

\* C6: a step of an invocation that has added nothing (batchSize = 0, or
\* only Ineligible and failed candidates) leaves allResults as it is.
C6_NothingAddedNothingChanged ==
  [][\A i \in Inv :
       (batch'[i] # batch[i] /\ batch'[i].added = 0)
       => allResults' = allResults]_vars

\* a batch of size 0 and a batch of failed attempts both ended, list non-empty
C6_Witness ==
  /\ Len(allResults) > 0
  /\ \E i \in Inv : batch[i].pc = "done" /\ batch[i].batchSize = 0
                    /\ ~batch[i].pageError
  /\ \E j \in Inv : batch[j].pc = "done" /\ batch[j].attempts > 0
                    /\ batch[j].added = 0

\* C7: of two records with equal combined, the one pushed first stands first
\* and, once both are ranked, has the smaller rank.
C7_TiesKeepAddOrder ==
  \A j, k \in 1..Len(allResults) :
    (allResults[j].combined = allResults[k].combined
       /\ allResults[j].seq < allResults[k].seq)
    => /\ j < k
       /\ (allResults[j].rank > 0 /\ allResults[k].rank > 0)
            => allResults[j].rank < allResults[k].rank

\* a tie between the first record pushed and one pushed two pushes later,
\* ranked 1 and 2 above the record pushed in between
C7_Witness ==
  /\ Len(allResults) = 3
  /\ RanksDense
  /\ allResults[1].combined = allResults[2].combined
  /\ allResults[2].combined > allResults[3].combined
  /\ allResults[1].seq = 1
  /\ allResults[2].seq = 3

\* the data of gd is complete: lookup successful, score numeric, summary
\* present, at least one review
CompleteData(detail, reviews) ==
  /\ detail.entry /\ detail.success /\ detail.score # Null
  /\ reviews.summary /\ reviews.positive + reviews.negative # 0

\* C8: getGameData returns a record only from complete data of two
\* successful fetches, and null whenever the data it fetched is incomplete.
C8_NoRecordFromPartialData ==
  /\ gd.result.status = "ok"
       => /\ gd.detail.ok /\ gd.reviews.ok
          /\ CompleteData(gd.detail, gd.reviews)
          /\ gd.result.info[1].metacriticScore = gd.detail.score[1]
          /\ gd.result.info[1].userScore * (gd.reviews.positive + gd.reviews.negative)
               = gd.reviews.positive * 100
  /\ (gd.detail.ok /\ gd.reviews.ok /\ ~CompleteData(gd.detail, gd.reviews))
       => gd.result = Ineligible

\* zero reviews under a numeric Metacritic score: Ineligible
C8_Witness ==
  /\ gd.detail.ok /\ gd.detail.score # Null /\ gd.detail.success
  /\ gd.reviews.ok /\ gd.reviews.summary
  /\ gd.reviews.positive + gd.reviews.negative = 0
  /\ gd.result = Ineligible

\* C9: every record of allResults has combined = metacriticScore +
\* userScore, and no step changes the three values of a record.
C9_CombinedIsSum ==
  /\ [](\A k \in 1..Len(allResults) :
          allResults[k].combined
            = allResults[k].metacriticScore + allResults[k].userScore)
  /\ [][\A k \in 1..Len(allResults) :
          \E j \in 1..Len(allResults') :
            /\ allResults'[j].seq = allResults[k].seq
            /\ allResults'[j].appid = allResults[k].appid
            /\ allResults'[j].metacriticScore = allResults[k].metacriticScore
            /\ allResults'[j].userScore = allResults[k].userScore
            /\ allResults'[j].combined = allResults[k].combined]_vars

\* a re-ranked list whose order is not the push order
C9_Witness ==
  /\ Len(allResults) >= 2
  /\ RanksDense
  /\ allResults[1].seq > allResults[2].seq
  /\ allResults[1].metacriticScore # allResults[1].userScore

\* the 1-based position results[k] takes when results is merged behind all
\* and the whole is sorted by combined descending
MergedPosition(all, results, k) ==
  Cardinality({j \in 1..Len(all) : all[j].combined >= results[k].combined})
  + Cardinality({j \in 1..Len(results) :
       \/ results[j].combined > results[k].combined
       \/ results[j].combined = results[k].combined /\ j <= k})

\* C10: the fallback pass shows each match with the position it takes in
\* the merge of the matches with allResults, in ascending order of that rank.
C10_FallbackRankIsMergedPosition ==
  [][\A s \in Srch :
       (search[s].pc \in {"page", "enrich"} /\ search'[s].pc = "done")
       => LET results == search'[s].results
              cards == searchShown'.cards
          IN  /\ Len(cards) = Len(results)
              /\ \A c \in 1..(Len(cards) - 1) : cards[c].rank <= cards[c + 1].rank
              /\ {cards[c] : c \in 1..Len(cards)}
                   = {[results[k] EXCEPT !.rank = MergedPosition(allResults, results, k)] :
                        k \in 1..Len(results)}]_vars

\* C11: searchGames never mutates the Aggregator's state: a step of a
\* searchGames invocation (any query, any outcome of its fetches) leaves
\* allResults, candidateList, candidateIndex and candidatePage as they were.
C11_SearchLeavesAggregator ==
  [][search' # search =>
       UNCHANGED << allResults, candidateList, candidateIndex, candidatePage >>]_vars

\* a fallback match has been ranked against a non-empty allResults
C11_Witness ==
  \E s \in Srch :
    /\ search[s].pc = "done"
    /\ ~search[s].local
    /\ Len(search[s].results) > 0
    /\ Len(allResults) > 0
    /\ searchShown.mode = "results"

\* the most entries a catalog page holds
MaxPageLen ==
  CHOOSE n \in 0..10 :
    /\ \A p \in DOMAIN catalog : Len(catalog[p]) <= n
    /\ \E p \in DOMAIN catalog : Len(catalog[p]) = n

\* a bound on the awaits a search invocation still has before it ends
Remaining(st) ==
  CASE st.pc = "page" ->
         (MAX_SEARCH_PAGES - st.page + 1) * (MaxPageLen + 1)
    [] st.pc = "enrich" ->
         (MAX_SEARCH_PAGES - st.page) * (MaxPageLen + 1) + Len(st.rest) + 1
    [] OTHER -> 0

\* C12: one searchGames invocation requests at most MAX_SEARCH_PAGES catalog
\* pages and collects at most MAX_SEARCH_RESULTS fallback matches, whatever
\* the pages hold and whichever fetches fail; the n-th request is for page n,
\* so a failed request uses up its page; and the search ends: each settled
\* fetch (fulfilled or failed) lowers a non-negative bound on what is left.
C12_SearchBudget ==
  /\ [](\A s \in Srch :
         /\ search[s].fetches <= MAX_SEARCH_PAGES
         /\ Len(search[s].results) <= MAX_SEARCH_RESULTS
         /\ search[s].pc = "page" => search[s].fetches = search[s].page
         /\ Remaining(search[s]) >= 0)
  /\ [][\A s \in Srch :
          (search[s].pc \in {"page", "enrich"} /\ search'[s] # search[s])
            => Remaining(search'[s]) < Remaining(search[s])]_vars

\* a search ended with both budgets spent and nothing from the first page
C12_Witness ==
  \E s \in Srch :
    /\ search[s].pc = "done"
    /\ search[s].fetches = MAX_SEARCH_PAGES
    /\ Len(search[s].results) = MAX_SEARCH_RESULTS
    /\ \A k \in 1..Len(search[s].results) : search[s].results[k].appid > 20

\* C13: searchGames calls the network only when its local pass finds no
\* match: an invocation that found a local match has requested no catalog
\* page and made no getGameData call, ends in the step that started it, and
\* shows its cards in ascending rank order.
C13_LocalMatchesNoNetwork ==
  /\ [](\A s \in Srch :
         search[s].local =>
           /\ search[s].pc = "done"
           /\ search[s].fetches = 0
           /\ search[s].enriched = 0)
  /\ [][\A s \in Srch :
          (search[s].pc = "idle" /\ search'[s].local) =>
            /\ searchShown'.mode = "results"
            /\ Len(searchShown'.cards) = Len(search'[s].results)
            /\ \A k \in 1..(Len(searchShown'.cards) - 1) :
                 searchShown'.cards[k].rank <= searchShown'.cards[k + 1].rank]_vars

\* a search answered from allResults alone, with two cards
C13_Witness ==
  \E s \in Srch :
    /\ search[s].local
    /\ search[s].pc = "done"
    /\ search[s].fetches = 0
    /\ Len(searchShown.cards) = 2

\* some entry of the catalog page is in candidateList
Materialized(page) ==
  \E k \in 1..Len(candidateList), j \in 1..Len(Catalog(page)) :
    candidateList[k] = Catalog(page)[j]

RecordsKept ==
  \A k \in 1..Len(allResults) :
    \E j \in 1..Len(allResults') :
      /\ allResults'[j].appid = allResults[k].appid
      /\ allResults'[j].seq = allResults[k].seq

\* C15: a getGameData call that throws inside loadNextBatch costs only its
\* candidate.  In the step that logs the error the records accepted so far
\* stay, none is added, the invocation is not rejected, and it goes on: to
\* the next candidate while added < batchSize and candidates remain, else to
\* its normal end, where a batch that added a record leaves allResults
\* sorted and ranked.
C15_ItemFailureSkipsOne ==
  [][\A i \in Inv :
       (batch[i].pc = "enrich" /\ ~batch[i].itemError /\ batch'[i].itemError)
         => /\ RecordsKept
            /\ Len(allResults') = Len(allResults)
            /\ batch'[i].added = batch[i].added
            /\ batch'[i].outcome # "rejected"
            /\ IF batch[i].added < batch[i].batchSize
                  /\ candidateIndex < Len(candidateList)
               THEN /\ batch'[i].pc = "enrich"
                    /\ candidateIndex' = candidateIndex + 1
                    /\ batch'[i].cand = candidateList[candidateIndex + 1].appid
               ELSE /\ batch'[i].pc = "done"
                    /\ batch'[i].outcome = "fulfilled"
                    /\ batch[i].added > 0 => (RanksDense' /\ Descending')]_vars

\* loadTopGames' batch is over: its first candidate threw, the second one
\* was accepted after it and carries rank 1
C15_Witness ==
  /\ batch[1].pc = "done"
  /\ batch[1].itemError
  /\ batch[1].attempts = 2
  /\ batch[1].added = 1
  /\ Len(allResults) = 1
  /\ allResults[1].appid = 2
  /\ allResults[1].rank = 1

\* every page requested so far has entries: the catalog has not answered
\* with an empty page
NoEmptyPageServed == \A p \in 1..candidatePage : Catalog(p) # << >>

\* C16: once loadTopGames has loaded its page, whenever no batch is running,
\* the last materialized candidate has been consumed and the catalog has
\* not answered with an empty page, the load-more button is displayed.
C16_LoadMoreStaysAvailable ==
  ( /\ pcTop = "called"
    /\ Quiescent
    /\ Len(candidateList) > 0
    /\ candidateIndex = Len(candidateList)
    /\ NoEmptyPageServed )
  => loadMoreShown

\* the query is empty or holds white space only
IsBlank(query) == \A k \in 1..Len(query) : query[k] = " "

NoPageInFlight == pcTop # "page" /\ \A i \in Inv : batch[i].pc # "page"

\* C18: after loadTopGames has loaded its page and whenever no page fetch is
\* in flight, failed page fetches included, the catalog pages in
\* candidateList are exactly the pages 1..candidatePage (stated for the
\* pages that hold entries, which candidateList shows): none is skipped.
C18_PagesDense ==
  (pcTop = "called" /\ NoPageInFlight) =>
    \A p \in DOMAIN catalog : Materialized(p) <=> p <= candidatePage

\* every record of allResults has a rank property
AllRanked == \A k \in 1..Len(allResults) : allResults[k].rank > 0

\* C19: allResults changes only in the re-rank at the end of a batch: a
\* searchGames invocation that starts while a loadNextBatch invocation is at
\* one of its awaits reads (line 116) an allResults that is sorted by
\* combined descending and in which every record has its rank.
C19_ReadersSeeRanked ==
  [][(nSearches' # nSearches /\ \E i \in Inv : batch[i].pc \in {"page", "enrich"})
       => (AllRanked /\ Descending)]_vars

\* the position in candidateList of the candidate a record was built from
PositionOf(appid) ==
  CHOOSE k \in 1..Len(candidateList) : candidateList[k].appid = appid

\* C20: candidates are consumed in candidateList order and their records
\* appended in that order, overlapping loadNextBatch invocations included:
\* candidateIndex only moves forward, one position per attempt, and of two
\* records of allResults the one pushed first comes from the earlier
\* candidate.
C20_AppendedInCandidateOrder ==
  /\ [](\A j, k \in 1..Len(allResults) :
         allResults[j].seq < allResults[k].seq =>
           PositionOf(allResults[j].appid) < PositionOf(allResults[k].appid))
  /\ [][/\ candidateIndex' >= candidateIndex
         /\ candidateIndex' # candidateIndex =>
              candidateIndex' = candidateIndex + 1]_vars

\* C21: loadNextBatch requests a catalog page only at its start and only
\* when candidateIndex has reached the end of candidateList; the request
\* advances candidatePage by exactly one and is for the page it then names;
\* an invocation that starts with unconsumed candidates requests none; an
\* invocation past its start (its page arrived, or it is in its loop) never
\* requests a page, so a batch whose candidates run out ends; and nothing
\* else moves candidatePage.
C21_PageOnlyWhenExhausted ==
  [][/\ \A i \in Inv :
          /\ (batch[i].pc = "idle" /\ batch'[i].pc # "idle") =>
                IF candidateIndex >= Len(candidateList')
                THEN /\ batch'[i].pc = "page"
                     /\ candidatePage' = candidatePage + 1
                     /\ batch'[i].page = candidatePage'
                ELSE /\ batch'[i].pc \in {"enrich", "done"}
                     /\ candidatePage' = candidatePage
          /\ (batch[i].pc # "idle" /\ batch'[i] # batch[i]) =>
                /\ batch'[i].pc \in {"enrich", "done"}
                /\ candidatePage' = candidatePage
     /\ candidatePage' # candidatePage =>
          \E i \in Inv : batch[i].pc = "idle" /\ batch'[i].pc = "page"]_vars

\* an invocation that began with both candidates consumed awaits page 2
C21_Witness ==
  \E i \in Inv :
    /\ batch[i].pc = "page"
    /\ batch[i].page = 2
    /\ candidatePage = 2
    /\ Len(candidateList) = 2
    /\ candidateIndex = 2

\* the appids of a sequence of records
AppIdsOf(records) == {records[k].appid : k \in 1..Len(records)}

\* C22: once every searchGames invocation issued has completed, two of them
\* at least, the search container, when displayed, holds the results of the
\* query issued last.
C22_LatestQueryShown ==
  ( /\ nSearches >= 2
    /\ \A s \in 1..nSearches : search[s].pc = "done"
    /\ ~listShown )
  => AppIdsOf(searchShown.cards) = AppIdsOf(search[nSearches].results)

\* C23: the catalog holds no id twice, and allResults never holds two
\* records of one appid, overlapping loadNextBatch invocations and page
\* fetches in flight together included.
C23_NoDuplicateAppids ==
  \A j, k \in 1..Len(allResults) :
    j # k => allResults[j].appid # allResults[k].appid

\* page 2, requested by a click before page 1 arrived, was appended first;
\* every candidate of both pages has its record
C23_Witness ==
  /\ Len(candidateList) = 3
  /\ candidateList[1].appid = 3
  /\ Len(allResults) = 3

\* C24: after loadTopGames' reset no step removes a record from allResults:
\* across the steps of loadNextBatch (pushes and re-ranks) and of
\* searchGames, every record stays and allResults.length never decreases.
C24_RecordsOnlyAdded ==
  [][RecordsKept /\ Len(allResults') >= Len(allResults)]_vars

\* both records of the first batch are ranked and a search has shown cards
C24_Witness ==
  /\ batch[1].pc = "done"
  /\ Len(allResults) = 2
  /\ \E s \in Srch : search[s].pc = "done" /\ Len(search[s].results) > 0

\* C25: one getGameData call issues at most two fetches, each once: the
\* detail fetch first; the review fetch second, and only when the detail
\* fetch succeeded and its body has a numeric Metacritic score; a fetch that
\* fails ends the call with an error.
C25_TwoFetchesInOrder ==
  gd.appid # 0 =>
    /\ Len(gd.fetches) \in {1, 2}
    /\ gd.fetches[1] = "details"
    /\ Len(gd.fetches) = 2 =>
          /\ gd.fetches[2] = "reviews"
          /\ gd.detail.ok /\ gd.detail.entry /\ gd.detail.success
          /\ gd.detail.score # Null
    /\ ~gd.detail.ok => (gd.fetches = << "details" >> /\ gd.result = Throw)
    /\ (Len(gd.fetches) = 2 /\ ~gd.reviews.ok) => gd.result = Throw

\* a call whose review fetch failed
C25_Witness ==
  /\ gd.appid # 0
  /\ gd.fetches = << "details", "reviews" >>
  /\ ~gd.reviews.ok
  /\ gd.result = Throw

\* the entries of rest from the first one that matches the query on
RECURSIVE FromFirstMatch(_, _)
FromFirstMatch(rest, trimmed) ==
  IF rest = << >> \/ EntryMatches(Head(rest), trimmed)
  THEN rest
  ELSE FromFirstMatch(Tail(rest), trimmed)

\* C26: a getGameData call that throws during the fallback scan of
\* searchGames does not end the scan: the matches collected so far are kept,
\* the scan goes on with the next matching entry of the same page, or with
\* the next page when the page has none left, and ends only on its budgets;
\* collected matches are never dropped and all of them are shown at the end.
C26_ItemFailureSwallowed ==
  /\ [][\A s \in Srch :
          LET st == search[s]
              nx == search'[s]
              matching == FromFirstMatch(st.rest, st.trimmed)
          IN  /\ (st.pc = "enrich" /\ nx.failed # st.failed) =>
                    /\ nx.failed = st.cand
                    /\ nx.results = st.results
                    /\ IF matching # << >>
                       THEN /\ nx.pc = "enrich"
                            /\ nx.page = st.page
                            /\ nx.cand = Head(matching).appid
                            /\ nx.rest = Tail(matching)
                       ELSE IF st.page < MAX_SEARCH_PAGES
                       THEN nx.pc = "page" /\ nx.page = st.page + 1
                       ELSE nx.pc = "done"
              /\ (st.pc \in {"page", "enrich"} /\ nx # st) =>
                    /\ Len(nx.results) >= Len(st.results)
                    /\ SubSeq(nx.results, 1, Len(st.results)) = st.results
              /\ (st.pc \in {"page", "enrich"} /\ nx.pc = "done") =>
                    AppIdsOf(searchShown'.cards) = AppIdsOf(nx.results)]_vars

\* a finished scan in which the call for the second entry of page 1 threw,
\* with the entry before it, the entry after it and an entry of page 2 among
\* the results
C26_Witness ==
  \E s \in Srch :
    /\ search[s].pc = "done"
    /\ search[s].failed = 12
    /\ {11, 13, 21} \subseteq AppIdsOf(search[s].results)
    /\ {11, 13, 21} \subseteq AppIdsOf(searchShown.cards)

\* Settle(i) can take a step exactly when invocation i awaits a fetch (an
\* invariant of Spec)
SettleEnabledWhenPending ==
  \A i \in Inv : Pending(i) <=> ENABLED <<Settle(i)>>_vars

\* C27: when every fetch settles in the end, every loadNextBatch invocation
\* that awaits a fetch completes, whatever its candidates come back as and
\* whichever other invocations run at the same time.
C27_BatchCompletes ==
  \A i \in Inv : Pending(i) ~> (batch[i].pc = "done")

\* an invocation that completed without one eligible candidate, the list run
\* out, while an earlier invocation still awaits a getGameData call
C27_Witness ==
  \E i, j \in Inv :
    /\ i < j
    /\ batch[i].pc = "enrich"
    /\ batch[j].pc = "done"
    /\ batch[j].attempts > 0
    /\ batch[j].added = 0
    /\ ~batch[j].pageError
    /\ candidateIndex = Len(candidateList)
====
